---- MODULE Spec2Model ----
(***************************************************************************)
(* State-machine model of the entity-component game loop: the world's      *)
(* component storages, the per-frame resources, the dispatcher's systems   *)
(* (Keyboard, AI, Movement, WinLoseChecker, Animator) and the driving      *)
(* loop of main.rs.                                                        *)
(*                                                                         *)
(* Time is in milliseconds (Instant values are readings of `clock`), the   *)
(* TimeDelta resource in microseconds.  Option<T> is a sequence of length  *)
(* 0 (None) or 1 (Some).  A Rect is [x, y, w, h] with (x, y) its top-left  *)
(* corner, as in sdl2.                                                     *)
(***************************************************************************)
EXTENDS Integers, Sequences, FiniteSets, TLC

VARIABLES
    world,           \* the component storages of the specs World
    keyboard_event,  \* resource Option<KeyboardEvent>
    time_delta,      \* resource TimeDelta, in microseconds
    game_status,     \* resource GameStatus
    clock,           \* the monotonic clock read by Instant::now(), in ms
    draws,           \* the numbers the generator yielded in this frame's AI pass
    done,            \* the systems that have run in the current dispatch
    pc,              \* where the driving loop is
    frame,           \* number of loop iterations completed
    pre,             \* history: the storages when the current dispatch began
    canon,           \* history: the storages had every dispatch so far run
                     \* Keyboard, AI, Movement, Animator in this order
    sheet_frames,    \* the frames_length main passes to standard_walking_animations
    polled,          \* history: the SDL events polled at the start of this frame
    reports          \* the lines printed by check_win_or_lose

vars == <<world, keyboard_event, time_delta, game_status, clock, draws, done,
          pc, frame, pre, canon, sheet_frames, polled, reports>>

---------------------------------------------------------------------------
(* Bounds of the model *)

\* number of enemies spawned (the game spawns a 3 x 2 grid of them)
NumEnemies == 1

\* number of loop iterations explored
MaxFrames == 2

---------------------------------------------------------------------------
(* Option values *)

None == <<>>

Some(v) == <<v>>

IsSome(o) == o # <<>>

Unwrap(o) == o[1]

---------------------------------------------------------------------------
(* Program constants *)

PlayerMovementSpeed == 200

EnemySpeed == 200

StepDelayMs == 150

DirectionChangeDelayMs == 200

FrameDurationNanos == 1000000000 \div 60

\* Duration::as_micros of the frame duration
FrameDurationMicros == FrameDurationNanos \div 1000

WorldWidth == 900

WorldHeight == 900

FramesLength == 3

BardoTexture == 0

ReaperTexture == 1

PinkTreeTexture == 2

Direction == {"Up", "Down", "Left", "Right"}

---------------------------------------------------------------------------
(* 32-bit integers and sdl2 geometry *)

MaxI32 == 2147483647

MinI32 == -MaxI32 - 1

\* Rust's integer division truncates toward zero (b > 0)
TruncDiv(a, b) ==
    IF a >= 0 \/ a % b = 0 THEN a \div b ELSE (a \div b) + 1

\* little-endian bytes of a non-negative i32
Bytes(a) == [i \in 0..3 |->
    CASE i = 0 -> a % 256
      [] i = 1 -> (a \div 256) % 256
      [] i = 2 -> (a \div 65536) % 256
      [] i = 3 -> (a \div 16777216) % 256]

\* a * b modulo 2^32 as a signed 32-bit value, for a, b >= 0, computed
\* bytewise so that no intermediate value leaves the 32-bit range
WrappingMul(a, b) ==
    LET x  == Bytes(a)
        y  == Bytes(b)
        c0 == x[0] * y[0]
        c1 == x[0] * y[1] + x[1] * y[0] + (c0 \div 256)
        c2 == x[0] * y[2] + x[1] * y[1] + x[2] * y[0] + (c1 \div 256)
        c3 == x[0] * y[3] + x[1] * y[2] + x[2] * y[1] + x[3] * y[0]
              + (c2 \div 256)
        r3 == c3 % 256
        top == IF r3 >= 128 THEN r3 - 256 ELSE r3
    IN  top * 16777216 + (c2 % 256) * 65536 + (c1 % 256) * 256 + (c0 % 256)

\* whether a * b leaves the i32 range, for a, b >= 0
MulOverflows(a, b) == b > 0 /\ a > MaxI32 \div b

\* sdl2 keeps every coordinate within half the i32 range
ClampPosition(v) ==
    IF v > MaxI32 \div 2 THEN MaxI32 \div 2
    ELSE IF v < -(MaxI32 \div 2) - 1 THEN -(MaxI32 \div 2) - 1
    ELSE v

Point(x, y) == [x |-> ClampPosition(x), y |-> ClampPosition(y)]

Rect(x, y, w, h) == [x |-> ClampPosition(x), y |-> ClampPosition(y),
                     w |-> w, h |-> h]

RectCenter(r) == Point(r.x + (r.w \div 2), r.y + (r.h \div 2))

RectFromCenter(c, w, h) ==
    Rect(ClampPosition(c.x) - (w \div 2), ClampPosition(c.y) - (h \div 2), w, h)

\* Rect::offset
RectOffset(r, dx, dy) == Rect(r.x + dx, r.y + dy, r.w, r.h)

\* Direction::into_point: the unit vector of a direction (y grows downward)
IntoPoint(d) ==
    CASE d = "Up"    -> [x |-> 0,  y |-> -1]
      [] d = "Down"  -> [x |-> 0,  y |-> 1]
      [] d = "Left"  -> [x |-> -1, y |-> 0]
      [] d = "Right" -> [x |-> 1,  y |-> 0]

---------------------------------------------------------------------------
(* Entities and their immutable components *)

GoalEntity == 0

PlayerEntity == 1

EnemyEntities == 2..(1 + NumEnemies)

Entities == {GoalEntity, PlayerEntity} \cup EnemyEntities

\* Player component
player(e) ==
    IF e = PlayerEntity THEN Some([movement_speed |-> PlayerMovementSpeed])
    ELSE None

\* the spritesheet parameters main passes to standard_walking_animations
\* for entity e: <<texture_id, top_left_frame, frames_length, step_delay>>
SheetOf(e) ==
    IF e = PlayerEntity
    THEN <<BardoTexture, Rect(0, 0, 52, 72), sheet_frames, StepDelayMs>>
    ELSE <<ReaperTexture, Rect(0, 0, 64, 72), sheet_frames, StepDelayMs>>

\* the Vec<Frame> collected for one row of a spritesheet
RowFrames(texture_id, top_left_frame, frames_length, step_delay, row) ==
    [i \in 1..frames_length |->
        [sprite |-> [texture_id |-> texture_id,
                     region |-> RectOffset(top_left_frame,
                                           (i - 1) * top_left_frame.w,
                                           row * top_left_frame.h)],
         duration |-> step_delay]]

\* An Arc<Vec<Frame>> is the pair <<owner, row>> naming the allocation made
\* for entity `owner` and spritesheet row `row`; ArcVec is the heap: the
\* (immutable) vector the Arc points to
ArcVec(arc) ==
    RowFrames(SheetOf(arc[1])[1], SheetOf(arc[1])[2], SheetOf(arc[1])[3],
              SheetOf(arc[1])[4], arc[2])

standard_walking_animations(owner, now) ==
    LET animation(row) == [frames |-> <<owner, row>>,
                           current_frame |-> 0,
                           frame_timer |-> now]
    IN  [walking_up    |-> animation(3),
         walking_down  |-> animation(0),
         walking_left  |-> animation(1),
         walking_right |-> animation(2)]

animation_for(ma, direction) ==
    CASE direction = "Up"    -> ma.walking_up
      [] direction = "Down"  -> ma.walking_down
      [] direction = "Left"  -> ma.walking_left
      [] direction = "Right" -> ma.walking_right

\* all entities are spawned at clock 0
SpawnTime == 0

\* MovementAnimations component (never written after spawn)
movement_animations(e) ==
    IF e = PlayerEntity \/ e \in EnemyEntities
    THEN Some(standard_walking_animations(e, SpawnTime))
    ELSE None

---------------------------------------------------------------------------
(* Keyboard system *)

MoveInDirection(d) == <<"MoveInDirection", d>>

Stop == <<"Stop">>

Escape == <<"Escape">>

KeyboardEvents ==
    {MoveInDirection(d) : d \in Direction} \cup {Stop, Escape}

\* KeyboardVelocity with Stop turning the entity to its spawn direction too
KeyboardVelocityStopResets(ev, pl, vel) ==
    IF ev = None THEN vel
    ELSE IF Unwrap(ev)[1] = "MoveInDirection"
    THEN [speed |-> pl.movement_speed, direction |-> Unwrap(ev)[2]]
    ELSE IF Unwrap(ev) = Stop
    THEN [speed |-> 0, direction |-> "Down"]
    ELSE vel

\* the body of Keyboard::run for one joined (Player, Velocity) pair
KeyboardVelocity(ev, pl, vel) ==
    IF ev = None THEN vel
    ELSE IF Unwrap(ev)[1] = "MoveInDirection"
    THEN [speed |-> pl.movement_speed, direction |-> Unwrap(ev)[2]]
    ELSE IF Unwrap(ev) = Stop
    THEN [vel EXCEPT !.speed = 0]
    ELSE vel

KeyboardRun(w, ev) ==
    [w EXCEPT !.velocity = [e \in Entities |->
        IF IsSome(player(e)) /\ IsSome(w.velocity[e])
        THEN Some(KeyboardVelocity(ev, Unwrap(player(e)), Unwrap(w.velocity[e])))
        ELSE w.velocity[e]]]

---------------------------------------------------------------------------
(* AI system *)

\* rng.gen_range(1..101)
DrawRange == 1..100

\* the match on the drawn number
ResolveDirection(draw, current) ==
    IF draw \in 1..60 THEN current
    ELSE IF draw \in 61..70 THEN "Up"
    ELSE IF draw \in 71..80 THEN "Down"
    ELSE IF draw \in 81..90 THEN "Left"
    ELSE "Right"

\* TimerElapsed asking for more than the delay
TimerElapsedStrict(en, now) ==
    now - en.direction_timer > en.direction_change_delay

\* enemy.direction_timer.elapsed() >= enemy.direction_change_delay
TimerElapsed(en, now) ==
    now - en.direction_timer >= en.direction_change_delay

\* AIRun halving the speed of an entity whose direction it decides
AIRunSlows(w, d, now) ==
    LET hit(e) == /\ IsSome(w.enemy[e])
                  /\ IsSome(w.velocity[e])
                  /\ TimerElapsed(Unwrap(w.enemy[e]), now)
    IN  [w EXCEPT
          !.velocity = [e \in Entities |->
              IF hit(e)
              THEN Some([speed |-> Unwrap(w.velocity[e]).speed \div 2,
                         direction |->
                            ResolveDirection(d[e], Unwrap(w.velocity[e]).direction)])
              ELSE w.velocity[e]],
          !.enemy = [e \in Entities |->
              IF hit(e)
              THEN Some([Unwrap(w.enemy[e]) EXCEPT !.direction_timer = now])
              ELSE w.enemy[e]]]

\* d[e] is the number the generator yields for entity e in this pass
AIRun(w, d, now) ==
    LET hit(e) == /\ IsSome(w.enemy[e])
                  /\ IsSome(w.velocity[e])
                  /\ TimerElapsed(Unwrap(w.enemy[e]), now)
    IN  [w EXCEPT
          !.velocity = [e \in Entities |->
              IF hit(e)
              THEN Some([Unwrap(w.velocity[e]) EXCEPT
                           !.direction = ResolveDirection(d[e], @)])
              ELSE w.velocity[e]],
          !.enemy = [e \in Entities |->
              IF hit(e)
              THEN Some([Unwrap(w.enemy[e]) EXCEPT !.direction_timer = now])
              ELSE w.enemy[e]]]

---------------------------------------------------------------------------
(* Movement system *)

\* speed * time_elapsed.as_micros() as i32 / 1_000_000 in i32 arithmetic,
\* the product wrapping where it leaves the range (release build)
Distance(speed, micros) ==
    TruncDiv(IF MulOverflows(speed, micros)
             THEN WrappingMul(speed, micros)
             ELSE speed * micros,
             1000000)

\* MoveBounds without the skip of stationary entities and with the width and
\* the height handed to Rect::from_center in the wrong order
MoveBoundsSwapped(vel, bounds, micros) ==
    LET distance == Distance(vel.speed, micros)
        c        == RectCenter(bounds)
        step     == Point(IntoPoint(vel.direction).x * distance,
                          IntoPoint(vel.direction).y * distance)
        new_pos  == Point(c.x + step.x, c.y + step.y)
    IN  RectFromCenter(new_pos, bounds.h, bounds.w)

\* the loop body of Movement::run for one joined (Velocity, BoundingBox) pair
MoveBounds(vel, bounds, micros) ==
    IF vel.speed = 0 THEN bounds
    ELSE LET distance == Distance(vel.speed, micros)
             c        == RectCenter(bounds)
             step     == Point(IntoPoint(vel.direction).x * distance,
                               IntoPoint(vel.direction).y * distance)
             new_pos  == Point(c.x + step.x, c.y + step.y)
         IN  RectFromCenter(new_pos, bounds.w, bounds.h)

MovementRun(w, micros) ==
    [w EXCEPT !.bounding_box = [e \in Entities |->
        IF IsSome(w.velocity[e]) /\ IsSome(w.bounding_box[e])
        THEN Some(MoveBounds(Unwrap(w.velocity[e]), Unwrap(w.bounding_box[e]), micros))
        ELSE w.bounding_box[e]]]

\* the multiplication overflows for some moving entity (a panic in a debug build)
MovementOverflows(w, micros) ==
    \E e \in Entities :
        /\ IsSome(w.velocity[e]) /\ IsSome(w.bounding_box[e])
        /\ Unwrap(w.velocity[e]).speed # 0
        /\ MulOverflows(Unwrap(w.velocity[e]).speed, micros)

---------------------------------------------------------------------------
(* Animator system *)

\* ArcNe comparing the pointers
ArcNeIdentity(a, b) == a # b

\* Arc<Vec<Frame>> != Arc<Vec<Frame>>: PartialEq of Arc compares the
\* contents (equal pointers are equal without looking)
ArcNe(a, b) == a # b /\ ArcVec(a) # ArcVec(b)

\* UpdateAnimation inserting the template only where there is no Animation
UpdateAnimationKeepsOld(slot, vel, move_animations) ==
    IF vel.speed = 0 /\ IsSome(slot) THEN None
    ELSE IF IsSome(slot) THEN slot
    ELSE Some(animation_for(move_animations, vel.direction))

\* UpdateAnimation without the removal of a stationary entity's Animation
UpdateAnimationNoTeardown(slot, vel, move_animations) ==
    LET dir_anim == animation_for(move_animations, vel.direction)
        needs_update == IF IsSome(slot)
                        THEN ArcNe(Unwrap(slot).frames, dir_anim.frames)
                        ELSE TRUE
    IN  IF needs_update THEN Some(dir_anim) ELSE slot

\* first loop of Animator::run for one joined (Velocity, MovementAnimations)
\* entity: the entity's Animation storage slot after the loop body
UpdateAnimation(slot, vel, move_animations) ==
    IF vel.speed = 0 /\ IsSome(slot) THEN None
    ELSE LET dir_anim == animation_for(move_animations, vel.direction)
             needs_update == IF IsSome(slot)
                             THEN ArcNe(Unwrap(slot).frames, dir_anim.frames)
                             ELSE TRUE
         IN  IF needs_update THEN Some(dir_anim) ELSE slot

\* FrameElapsed with the comparison turned round
FrameElapsedInverted(anim, now) ==
    now - anim.frame_timer <= ArcVec(anim.frames)[anim.current_frame + 1].duration

\* anim.frame_timer.elapsed() >= anim.frames[anim.current_frame].duration
FrameElapsed(anim, now) ==
    now - anim.frame_timer >= ArcVec(anim.frames)[anim.current_frame + 1].duration

\* AdvanceAnimation counting on past the last frame
AdvanceAnimationNoWrap(anim, now) ==
    IF FrameElapsed(anim, now)
    THEN [anim EXCEPT !.current_frame = anim.current_frame + 1,
                      !.frame_timer = now]
    ELSE anim

\* AdvanceAnimation making up for every frame duration that has elapsed
AdvanceAnimationCatchUp(anim, now) ==
    IF FrameElapsed(anim, now)
    THEN [anim EXCEPT
            !.current_frame =
                (anim.current_frame
                   + ((now - anim.frame_timer)
                        \div ArcVec(anim.frames)[anim.current_frame + 1].duration))
                % Len(ArcVec(anim.frames)),
            !.frame_timer = now]
    ELSE anim

\* second loop of Animator::run for one joined (Animation, Sprite) pair
AdvanceAnimation(anim, now) ==
    IF FrameElapsed(anim, now)
    THEN [anim EXCEPT
            !.current_frame = (anim.current_frame + 1) % Len(ArcVec(anim.frames)),
            !.frame_timer = now]
    ELSE anim

AdvanceSprite(anim, sprite, now) ==
    IF FrameElapsed(anim, now)
    THEN ArcVec(anim.frames)[((anim.current_frame + 1) % Len(ArcVec(anim.frames))) + 1].sprite
    ELSE sprite

\* the Animation storage after the first loop of Animator::run
FirstLoop(w) ==
    [e \in Entities |->
        IF IsSome(w.velocity[e]) /\ IsSome(movement_animations(e))
        THEN UpdateAnimation(w.animation[e], Unwrap(w.velocity[e]),
                             Unwrap(movement_animations(e)))
        ELSE w.animation[e]]

\* anim.frames[anim.current_frame] of the second loop is out of bounds for
\* some joined entity: the system panics
AnimatorIndexError(w) ==
    \E e \in Entities :
        /\ IsSome(FirstLoop(w)[e]) /\ IsSome(w.sprite[e])
        /\ Unwrap(FirstLoop(w)[e]).current_frame
             >= Len(ArcVec(Unwrap(FirstLoop(w)[e]).frames))

AnimatorRun(w, now) ==
    LET animations == FirstLoop(w)
        joined(e) == IsSome(animations[e]) /\ IsSome(w.sprite[e])
    IN  [w EXCEPT
          !.animation = [e \in Entities |->
              IF joined(e)
              THEN Some(AdvanceAnimation(Unwrap(animations[e]), now))
              ELSE animations[e]],
          !.sprite = [e \in Entities |->
              IF joined(e)
              THEN Some(AdvanceSprite(Unwrap(animations[e]), Unwrap(w.sprite[e]), now))
              ELSE w.sprite[e]]]

---------------------------------------------------------------------------
(* Dispatcher *)

Systems == {"Keyboard", "AI", "Movement", "WinLoseChecker", "Animator"}

\* Deps with Animator registered without dependencies
DepsAnimatorUnordered(s) ==
    CASE s = "Keyboard"       -> {}
      [] s = "AI"             -> {}
      [] s = "Movement"       -> {"Keyboard", "AI"}
      [] s = "WinLoseChecker" -> {"Movement"}
      [] s = "Animator"       -> {}

\* Deps with Movement registered without dependencies
DepsMovementUnordered(s) ==
    CASE s = "Keyboard"       -> {}
      [] s = "AI"             -> {}
      [] s = "Movement"       -> {}
      [] s = "WinLoseChecker" -> {"Movement"}
      [] s = "Animator"       -> {"Keyboard", "AI"}

\* Deps with Animator registered after Keyboard alone
DepsAnimatorAfterKeyboard(s) ==
    CASE s = "Keyboard"       -> {}
      [] s = "AI"             -> {}
      [] s = "Movement"       -> {"Keyboard", "AI"}
      [] s = "WinLoseChecker" -> {"Movement"}
      [] s = "Animator"       -> {"Keyboard"}

\* the dependencies declared to the DispatcherBuilder
Deps(s) ==
    CASE s = "Keyboard"       -> {}
      [] s = "AI"             -> {}
      [] s = "Movement"       -> {"Keyboard", "AI"}
      [] s = "WinLoseChecker" -> {"Movement"}
      [] s = "Animator"       -> {"Keyboard", "AI"}

\* a system may run once per dispatch, after its declared predecessors
CanRun(s) ==
    /\ pc = "dispatch"
    /\ s \notin done
    /\ Deps(s) \subseteq done

GameStatuses == {"Running", "Win", "Lose"}

\* the storages and resources WinLoseChecker is given, as section 4.7
\* describes the system
WinLoseCheckerAccess ==
    [read  |-> {"BoundingBox", "Goal", "Player", "Enemy"},
     write |-> {"GameStatus"}]

\* the SystemData of each system: ReadStorage / Read / ReadExpect / Entities
\* are reads, WriteStorage is a write
Access(s) ==
    CASE s = "Keyboard" ->
            [read  |-> {"Player", "KeyboardEvent"},
             write |-> {"Velocity"}]
      [] s = "AI" ->
            [read  |-> {},
             write |-> {"Enemy", "Velocity"}]
      [] s = "Movement" ->
            [read  |-> {"Velocity", "TimeDelta"},
             write |-> {"BoundingBox"}]
      [] s = "Animator" ->
            [read  |-> {"Entities", "Velocity", "MovementAnimations"},
             write |-> {"Animation", "Sprite"}]
      [] s = "WinLoseChecker" -> WinLoseCheckerAccess

---------------------------------------------------------------------------
(* Spawning *)

\* the random numbers drawn while spawning, in the runs explored: the x of
\* the goal and of the player (of gen_range(-450..450)), the offset of an
\* enemy in its grid cell (of gen_range(-80..80), gen_range(-40..40)) and
\* the direction of an enemy (of the four)
SpawnXSamples == {0}

SpawnOffsetSamples == {<<-80, 39>>}

SpawnDirectionSamples == {"Down"}

\* the enemy grid cell (i, j) of the k-th enemy spawned, k = 0, 1, ...:
\* for i in -1..2 { for j in -2..0 { ... } }
GridI(k) == -1 + (k \div 2)

GridJ(k) == -2 + (k % 2)

\* generate_goal_in_world
GoalBox(rx) ==
    RectFromCenter(Point(rx, -((WorldHeight \div 2) - 116)), 92, 116)

GoalSprite == [texture_id |-> PinkTreeTexture, region |-> Rect(0, 0, 128, 128)]

\* generate_player_in_world
PlayerBox(rx) == RectFromCenter(Point(rx, 250), 32, 58)

\* generate_enemies_in_world / generate_ennemy_in_world
EnemyBox(e, ox, oy) ==
    RectFromCenter(Point(GridI(e - 2) * 200 + ox, GridJ(e - 2) * 140 + 200 + oy),
                   50, 58)

\* SpawnSprite taking the first cell of the spritesheet where the frame
\* sequence is empty, in place of indexing it
SpawnSpriteUnchecked(e, frames) ==
    IF Len(frames) = 0
    THEN Some([texture_id |-> SheetOf(e)[1], region |-> SheetOf(e)[2]])
    ELSE Some(frames[1].sprite)

\* animation_for(dir).frames[0].sprite.clone() of the entity builders: the
\* Sprite an entity is spawned with, None where indexing frames[0] panics
SpawnSprite(e, frames) ==
    IF Len(frames) = 0 THEN None ELSE Some(frames[1].sprite)

\* the storages of World::new(), before any entity is created
EmptyWorld ==
    [velocity     |-> [e \in Entities |-> None],
     bounding_box |-> [e \in Entities |-> None],
     sprite       |-> [e \in Entities |-> None],
     animation    |-> [e \in Entities |-> None],
     enemy        |-> [e \in Entities |-> None]]

\* the world after generate_goal_in_world alone
GoalWorld(gx) ==
    [EmptyWorld EXCEPT !.bounding_box[GoalEntity] = Some(GoalBox(gx)),
                       !.sprite[GoalEntity] = Some(GoalSprite)]

\* the world built by main before the loop starts; gx, px: the random x of
\* the goal and of the player; off[e], dir[e]: the random offset and
\* direction of enemy e
SpawnWorld(gx, px, off, dir) ==
    LET start(e) == IF e = PlayerEntity THEN "Down" ELSE dir[e]
        moving(e) == e = PlayerEntity \/ e \in EnemyEntities
        template(e) == animation_for(Unwrap(movement_animations(e)), start(e))
    IN  [velocity |-> [e \in Entities |->
            IF e = PlayerEntity THEN Some([speed |-> 0, direction |-> "Down"])
            ELSE IF e \in EnemyEntities
            THEN Some([speed |-> EnemySpeed, direction |-> dir[e]])
            ELSE None],
         bounding_box |-> [e \in Entities |->
            IF e = GoalEntity THEN Some(GoalBox(gx))
            ELSE IF e = PlayerEntity THEN Some(PlayerBox(px))
            ELSE Some(EnemyBox(e, off[e][1], off[e][2]))],
         sprite |-> [e \in Entities |->
            IF moving(e) THEN SpawnSprite(e, ArcVec(template(e).frames))
            ELSE Some(GoalSprite)],
         animation |-> [e \in Entities |->
            IF moving(e) THEN Some(template(e)) ELSE None],
         enemy |-> [e \in Entities |->
            IF e \in EnemyEntities
            THEN Some([direction_timer |-> SpawnTime,
                       direction_change_delay |-> DirectionChangeDelayMs])
            ELSE None]]

NoDraws == [e \in Entities |-> 0]

\* the frame counts handed to standard_walking_animations in the runs
\* explored: the one main passes, and zero
FramesLengthSamples == {0, FramesLength}

\* main has built the dispatcher and the empty world
Init ==
    /\ sheet_frames \in FramesLengthSamples
    /\ world = EmptyWorld
    /\ pre = world
    /\ canon = world
    /\ keyboard_event = None
    /\ time_delta = 0
    /\ game_status = "Running"
    /\ clock = SpawnTime
    /\ draws = NoDraws
    /\ done = {}
    /\ pc = "setup"
    /\ frame = 0
    /\ polled = <<>>
    /\ reports = <<>>

\* generate_player_in_world indexes frames[0] of an empty frame sequence
SpawnPanics ==
    SpawnSprite(PlayerEntity,
                ArcVec(animation_for(Unwrap(movement_animations(PlayerEntity)),
                                     "Down").frames)) = None

\* generate_goal_in_world, generate_player_in_world and
\* generate_enemies_in_world build the entities; main inserts the resources
Setup ==
    /\ pc = "setup"
    /\ ~SpawnPanics
    /\ \E gx \in SpawnXSamples,
          px \in SpawnXSamples,
          off \in [EnemyEntities -> SpawnOffsetSamples],
          dir \in [EnemyEntities -> SpawnDirectionSamples] :
            world' = SpawnWorld(gx, px, off, dir)
    /\ pre' = world'
    /\ canon' = world'
    /\ pc' = "poll"
    /\ UNCHANGED <<keyboard_event, time_delta, game_status, clock, draws, done,
                   frame, sheet_frames, polled, reports>>

\* the goal is built, then generate_player_in_world panics: main never
\* reaches game_loop
SetupPanic ==
    /\ pc = "setup"
    /\ SpawnPanics
    /\ \E gx \in SpawnXSamples : world' = GoalWorld(gx)
    /\ pre' = world'
    /\ canon' = world'
    /\ pc' = "aborted"
    /\ UNCHANGED <<keyboard_event, time_delta, game_status, clock, draws, done,
                   frame, sheet_frames, polled, reports>>

---------------------------------------------------------------------------
(* The driving loop *)

\* the numbers the generator is made to yield in the runs explored: one
\* that keeps the direction, one that sets Up, one that sets Right
DrawSamples == {60, 70, 100}

\* how long one loop iteration may take, in ms: thread::sleep(1/60 s) or longer
SleepSamples == {17, 200}

\* the directions of the arrow keys pressed in the runs explored
KeySamples == {"Up", "Right"}

\* SDL events: Event::Quit, Event::KeyDown / Event::KeyUp with their keycode
\* and repeat flag, and any other event
SdlQuit == <<"Quit">>

KeyDown(keycode, repeat) == <<"KeyDown", keycode, repeat>>

KeyUp(keycode, repeat) == <<"KeyUp", keycode, repeat>>

\* the match of handle_game_events on one event: the value assigned to
\* keyboard_event, None where the event falls to the `_` arm
MatchEvent(event) ==
    IF event = SdlQuit THEN Some(Escape)
    ELSE IF event[1] = "KeyDown" /\ event[2] = "Escape" THEN Some(Escape)
    ELSE IF event[1] = "KeyDown" /\ event[2] \in Direction /\ ~event[3]
    THEN Some(MoveInDirection(event[2]))
    ELSE IF event[1] = "KeyUp" /\ event[2] \in Direction /\ ~event[3]
    THEN Some(Stop)
    ELSE None

RECURSIVE PollLoop(_, _)
\* the for loop of handle_game_events over the events still in the pump,
\* keyboard_event being the value assigned so far
PollLoop(events, keyboard_event_so_far) ==
    IF events = <<>> THEN keyboard_event_so_far
    ELSE PollLoop(Tail(events),
                  IF IsSome(MatchEvent(Head(events)))
                  THEN MatchEvent(Head(events))
                  ELSE keyboard_event_so_far)

handle_game_events(events) == PollLoop(events, None)

\* the batches of events the pump holds at the start of a frame, in the runs
\* explored
BatchSamples ==
    {<<>>, <<SdlQuit>>, <<KeyUp("Up", FALSE)>>}
    \cup {<<KeyDown(d, FALSE)>> : d \in KeySamples}
    \cup {<<KeyDown("Escape", FALSE), KeyDown("Up", FALSE)>>,
          <<KeyDown("Up", FALSE), KeyDown("Escape", FALSE)>>}

\* handle_game_events returned Escape: the loop breaks
QuitLoop ==
    /\ pc = "poll"
    /\ frame < MaxFrames
    /\ \E events \in BatchSamples :
          /\ handle_game_events(events) = Some(Escape)
          /\ polled' = events
    /\ pc' = "exited"
    /\ UNCHANGED <<world, pre, canon, keyboard_event, time_delta, game_status,
                   clock, draws, done, frame, sheet_frames, reports>>

\* BeginFrame leaving the resource as it is where no event was polled
BeginFrameSticky ==
    /\ pc = "poll"
    /\ frame < MaxFrames
    /\ \E events \in BatchSamples :
          /\ handle_game_events(events) # Some(Escape)
          /\ polled' = events
          /\ keyboard_event' = IF handle_game_events(events) = None
                               THEN keyboard_event
                               ELSE handle_game_events(events)
    /\ time_delta' = FrameDurationMicros
    /\ pre' = world
    /\ draws' = NoDraws
    /\ done' = {}
    /\ pc' = "dispatch"
    /\ UNCHANGED <<world, canon, game_status, clock, frame, sheet_frames,
                   reports>>

\* handle_game_events returned something else; world.insert(keyboard_event);
\* update_world writes TimeDelta and calls dispatch
BeginFrame ==
    /\ pc = "poll"
    /\ frame < MaxFrames
    /\ \E events \in BatchSamples :
          /\ handle_game_events(events) # Some(Escape)
          /\ polled' = events
          /\ keyboard_event' = handle_game_events(events)
    /\ time_delta' = FrameDurationMicros
    /\ pre' = world
    /\ draws' = NoDraws
    /\ done' = {}
    /\ pc' = "dispatch"
    /\ UNCHANGED <<world, canon, game_status, clock, frame, sheet_frames,
                   reports>>

RunKeyboard ==
    /\ CanRun("Keyboard")
    /\ world' = KeyboardRun(world, keyboard_event)
    /\ done' = done \cup {"Keyboard"}
    /\ UNCHANGED <<pre, canon, keyboard_event, time_delta, game_status, clock,
                   draws, pc, frame, sheet_frames, polled, reports>>

RunAI ==
    /\ CanRun("AI")
    /\ \E d \in [EnemyEntities -> DrawSamples] :
          /\ draws' = [e \in Entities |->
                IF /\ e \in EnemyEntities
                   /\ IsSome(world.enemy[e]) /\ IsSome(world.velocity[e])
                   /\ TimerElapsed(Unwrap(world.enemy[e]), clock)
                THEN d[e] ELSE 0]
          /\ world' = AIRun(world, draws', clock)
    /\ done' = done \cup {"AI"}
    /\ UNCHANGED <<pre, canon, keyboard_event, time_delta, game_status, clock,
                   pc, frame, sheet_frames, polled, reports>>

RunMovement ==
    /\ CanRun("Movement")
    /\ world' = MovementRun(world, time_delta)
    /\ done' = done \cup {"Movement"}
    /\ UNCHANGED <<pre, canon, keyboard_event, time_delta, game_status, clock,
                   draws, pc, frame, sheet_frames, polled, reports>>

\* the overlap rule of WinLoseChecker is not fixed: it reads bounding boxes
\* and may write any status
RunWinLoseChecker ==
    /\ CanRun("WinLoseChecker")
    /\ game_status' \in GameStatuses
    /\ done' = done \cup {"WinLoseChecker"}
    /\ UNCHANGED <<world, pre, canon, keyboard_event, time_delta, clock, draws,
                   pc, frame, sheet_frames, polled, reports>>

RunAnimator ==
    /\ CanRun("Animator")
    /\ IF AnimatorIndexError(world)
       THEN /\ pc' = "panicked"
            /\ UNCHANGED <<world, done>>
       ELSE /\ world' = AnimatorRun(world, clock)
            /\ done' = done \cup {"Animator"}
            /\ UNCHANGED pc
    /\ UNCHANGED <<pre, canon, keyboard_event, time_delta, game_status, clock,
                   draws, frame, sheet_frames, polled, reports>>

\* one dispatch in the order Keyboard, AI, Movement, Animator
CanonFrame(w, ev, d, now, micros) ==
    AnimatorRun(MovementRun(AIRun(KeyboardRun(w, ev), d, now), micros), now)

\* EndFrame going on to the next frame whatever the GameStatus
EndFrameNoBreak ==
    /\ pc = "dispatch"
    /\ done = Systems
    /\ pc' = "poll"
    /\ frame' = frame + 1
    /\ \E d \in SleepSamples : clock' = clock + d
    /\ pre' = world
    /\ canon' = CanonFrame(canon, keyboard_event, draws, clock, time_delta)
    /\ draws' = NoDraws
    /\ polled' = <<>>
    /\ UNCHANGED <<world, keyboard_event, time_delta, game_status, done,
                   sheet_frames, reports>>

\* the line check_win_or_lose prints for a status other than Running
CheckWinOrLose(status) ==
    IF status = "Win" THEN "You win!" ELSE "You lose!"

\* dispatch has returned: world.maintain(), check_win_or_lose, render, sleep
EndFrame ==
    /\ pc = "dispatch"
    /\ done = Systems
    /\ IF game_status = "Running"
       THEN /\ pc' = "poll"
            /\ frame' = frame + 1
            /\ \E d \in SleepSamples : clock' = clock + d
            /\ UNCHANGED reports
       ELSE /\ pc' = "finished"
            /\ reports' = Append(reports, CheckWinOrLose(game_status))
            /\ UNCHANGED <<frame, clock>>
    /\ pre' = world
    /\ canon' = CanonFrame(canon, keyboard_event, draws, clock, time_delta)
    /\ draws' = NoDraws
    /\ polled' = <<>>
    /\ UNCHANGED <<world, keyboard_event, time_delta, game_status, done,
                   sheet_frames>>

Next ==
    \/ Setup
    \/ SetupPanic
    \/ QuitLoop
    \/ BeginFrame
    \/ RunKeyboard
    \/ RunAI
    \/ RunMovement
    \/ RunWinLoseChecker
    \/ RunAnimator
    \/ EndFrame

Spec == Init /\ [][Next]_vars

---------------------------------------------------------------------------
(* One Movement pass on drawn inputs: the player is given a speed and a    *)
(* direction, the TimeDelta resource a duration, and Movement runs once.   *)
(* Where the i32 product overflows, a release build wraps (RunMovement)    *)
(* and a debug build panics (MovementPanic).                               *)

SpeedSamples == {0, 1, 59, 60, 200, 200000}

\* TimeDelta in microseconds: the loop's 1/60 s, 1/60 s rounded up, 5 ms less
\* a microsecond, one second
DeltaSamples == {16666, 16667, 4999, 1000000}

InitMove ==
    /\ sheet_frames = FramesLength
    /\ \E dir \in [EnemyEntities -> SpawnDirectionSamples],
          sp \in SpeedSamples, pd \in Direction :
            world = [SpawnWorld(0, 0, [e \in EnemyEntities |-> <<-80, 39>>], dir)
                        EXCEPT !.velocity[PlayerEntity] =
                                  Some([speed |-> sp, direction |-> pd])]
    /\ time_delta \in DeltaSamples
    /\ pre = world
    /\ canon = world
    /\ keyboard_event = None
    /\ game_status = "Running"
    /\ clock = SpawnTime
    /\ draws = NoDraws
    /\ done = {"Keyboard", "AI"}
    /\ pc = "dispatch"
    /\ frame = 0
    /\ polled = <<>>
    /\ reports = <<>>

MovementPanic ==
    /\ CanRun("Movement")
    /\ MovementOverflows(world, time_delta)
    /\ pc' = "panicked"
    /\ UNCHANGED <<world, pre, canon, keyboard_event, time_delta, game_status,
                   clock, draws, done, frame, sheet_frames, polled, reports>>

NextMove ==
    \/ RunMovement
    \/ MovementPanic

SpecMove == InitMove /\ [][NextMove]_vars

---------------------------------------------------------------------------
(* One Animator pass on drawn inputs: the first enemy is given a Velocity  *)
(* and an Animation slot (empty, or an Animation at some frame with some   *)
(* frame timer over one of the frame sequences at hand), the clock a       *)
(* reading, and the Animator runs once.                                    *)

\* the entity whose components are drawn: the first enemy spawned
AnimSubject == PlayerEntity + 1

\* one more call of standard_walking_animations with the arguments of
\* generate_ennemy_in_world, as made for each further enemy of the grid: its
\* frame sequences equal those of every enemy, in allocations of their own
IndependentBuild == 2 + NumEnemies

\* the frame sequences an Animation is drawn over: the four rows allocated
\* for the subject and the four of the independent build
ArcSamples == {<<o, row>> : o \in {AnimSubject, IndependentBuild}, row \in 0..3}

\* clock readings at the pass and frame timers, in ms: the time since the
\* timer was set is 0, 100, 149, 150, 249, 250, 500 or 600
ClockSamples == {100, 249, 250, 600}

TimerSamples == {0, 100}

AnimationSamples ==
    {None} \cup
    {Some([frames |-> arc, current_frame |-> cf, frame_timer |-> t]) :
        arc \in ArcSamples, cf \in 0..(FramesLength - 1), t \in TimerSamples}

InitAnim ==
    /\ sheet_frames = FramesLength
    /\ \E sp \in {0, EnemySpeed}, d \in Direction, slot \in AnimationSamples :
          world = [SpawnWorld(0, 0, [e \in EnemyEntities |-> <<-80, 39>>],
                              [e \in EnemyEntities |-> "Down"])
                      EXCEPT !.velocity[AnimSubject] =
                                Some([speed |-> sp, direction |-> d]),
                             !.animation[AnimSubject] = slot]
    /\ clock \in ClockSamples
    /\ pre = world
    /\ canon = world
    /\ keyboard_event = None
    /\ time_delta = FrameDurationMicros
    /\ game_status = "Running"
    /\ draws = NoDraws
    /\ done = {"Keyboard", "AI"}
    /\ pc = "dispatch"
    /\ frame = 0
    /\ polled = <<>>
    /\ reports = <<>>

NextAnim == RunAnimator

SpecAnim == InitAnim /\ [][NextAnim]_vars

---------------------------------------------------------------------------
(* Properties *)

\* the entities the first loop of the Animator joins
Animated(e) == IsSome(world.velocity[e]) /\ IsSome(movement_animations(e))

\* within a dispatch, after the named system has run; `pre` then holds the
\* storages as they were when the dispatch began
After(s) == pc = "dispatch" /\ s \in done

Speed(e) == Unwrap(world.velocity[e]).speed

Dir(e) == Unwrap(world.velocity[e]).direction

\* the template of entity e for the direction it now has
DirTemplate(e) == animation_for(Unwrap(movement_animations(e)), Dir(e))

\* C1: after every Animator pass, every entity with Velocity and
\* MovementAnimations has an Animation if and only if its speed is nonzero
C1_AnimationIffMoving ==
    "Animator" \in done =>
        \A e \in Entities :
            Animated(e) => (IsSome(world.animation[e]) <=> Speed(e) # 0)

\* C2: when an entity's direction changed in this frame while its speed
\* stayed nonzero, then after the frame's Animator pass its Animation is at
\* frame 0 and its Sprite is frame 0 of the new direction's template
C2_DirectionSwitchResets ==
    After("Animator") =>
        \A e \in Entities :
            ( /\ Animated(e)
              /\ IsSome(pre.velocity[e])
              /\ Unwrap(pre.velocity[e]).speed # 0
              /\ Speed(e) # 0
              /\ Unwrap(pre.velocity[e]).direction # Dir(e) )
            => /\ IsSome(world.animation[e])
               /\ Unwrap(world.animation[e]).current_frame = 0
               /\ world.sprite[e] = Some(ArcVec(DirTemplate(e).frames)[1].sprite)

\* C3: a Movement pass leaves the BoundingBox of every entity whose speed
\* is 0 exactly as it was, whatever its direction and the TimeDelta
C3_StationaryBoxUnchanged ==
    After("Movement") =>
        \A e \in Entities :
            ( /\ IsSome(world.velocity[e])
              /\ IsSome(pre.bounding_box[e])
              /\ Speed(e) = 0 )
            => world.bounding_box[e] = pre.bounding_box[e]

\* C3 witness: the stationary player, facing left, has been through a
\* Movement pass with a TimeDelta of one second
C3_Witness ==
    /\ After("Movement")
    /\ Speed(PlayerEntity) = 0
    /\ Dir(PlayerEntity) = "Left"
    /\ time_delta = 1000000
    /\ world.bounding_box[PlayerEntity] = pre.bounding_box[PlayerEntity]

\* C4: in a frame in which an entity with Velocity, MovementAnimations and
\* an Animation has speed 0, the Animator pass removes the Animation and
\* leaves the Sprite as it was
C4_StationaryTeardown ==
    After("Animator") =>
        \A e \in Entities :
            (Animated(e) /\ IsSome(pre.animation[e]) /\ Speed(e) = 0)
            => /\ world.animation[e] = None
               /\ world.sprite[e] = pre.sprite[e]

\* C4 witness: the player was moving with an Animation, a Stop arrived, and
\* the Animator of the same frame has removed the Animation
C4_Witness ==
    /\ After("Animator")
    /\ keyboard_event = Some(Stop)
    /\ Unwrap(pre.velocity[PlayerEntity]).speed # 0
    /\ IsSome(pre.animation[PlayerEntity])
    /\ Speed(PlayerEntity) = 0
    /\ world.animation[PlayerEntity] = None
    /\ world.sprite[PlayerEntity] = pre.sprite[PlayerEntity]

\* floor(speed * micros / 1_000_000) of the exact product, computed without
\* forming the product
ExactDisplacement(speed, micros) ==
    ((speed \div 1000) * micros + ((speed % 1000) * micros) \div 1000) \div 1000

DrawsGiving(current, target) ==
    {r \in DrawRange : ResolveDirection(r, current) = target}

\* C6: for an enemy whose direction timer has elapsed, exactly 60 of the 100
\* numbers that can be drawn keep its direction and exactly 10 give each of
\* the three other directions
C6_SixtyPercentPersistence ==
    (pc = "dispatch" /\ "AI" \notin done) =>
        \A e \in EnemyEntities :
            ( /\ IsSome(world.enemy[e])
              /\ IsSome(world.velocity[e])
              /\ TimerElapsed(Unwrap(world.enemy[e]), clock) )
            => /\ Cardinality(DrawsGiving(Dir(e), Dir(e))) = 60
               /\ \A other \in Direction \ {Dir(e)} :
                      Cardinality(DrawsGiving(Dir(e), other)) = 10

\* the Animator neither removes nor replaces the Animation entity e had when
\* the dispatch began: e is not joined by the first loop, or it moves and
\* the Animation already is the one of its direction
AnimationKept(e) ==
    Animated(e) =>
        /\ Speed(e) # 0
        /\ Unwrap(pre.animation[e]).frames = DirTemplate(e).frames

\* time since the frame timer was set is less than the current frame's duration
FrameStillShowing(anim) ==
    clock - anim.frame_timer < ArcVec(anim.frames)[anim.current_frame + 1].duration

\* C7: an Animator pass leaves current_frame, frame_timer and Sprite of an
\* entity unchanged when its Animation is neither removed nor replaced and
\* the current frame's duration has not yet elapsed
C7_NoAdvanceBeforeDuration ==
    After("Animator") =>
        \A e \in Entities :
            ( /\ IsSome(pre.animation[e])
              /\ IsSome(pre.sprite[e])
              /\ AnimationKept(e)
              /\ FrameStillShowing(Unwrap(pre.animation[e])) )
            => /\ world.animation[e] = pre.animation[e]
               /\ world.sprite[e] = pre.sprite[e]

\* C7 witness: some time after an enemy's frame timer was set, but less
\* than the frame's duration, the Animator has run and left it as it was
C7_Witness ==
    /\ After("Animator")
    /\ \E e \in EnemyEntities :
          /\ IsSome(pre.animation[e])
          /\ AnimationKept(e)
          /\ clock > Unwrap(pre.animation[e]).frame_timer
          /\ FrameStillShowing(Unwrap(pre.animation[e]))
          /\ world.animation[e] = pre.animation[e]
          /\ world.sprite[e] = pre.sprite[e]

\* C8: whatever order the systems ran in within each dispatch, as far as
\* the declared dependencies allow, the storages after any number of frames
\* are those the order Keyboard, AI, Movement, Animator gives for the same
\* events, drawn numbers and clock
C8_OrderIndependent ==
    pc # "dispatch" => world = canon

\* C8 witness: two frames are over, the player was sent right, an enemy has
\* re-decided its direction, and the storages agree with the sequential run
C8_Witness ==
    /\ pc = "poll"
    /\ frame >= 2
    /\ keyboard_event = Some(MoveInDirection("Right"))
    /\ \E e \in EnemyEntities : Unwrap(world.enemy[e]).direction_timer > SpawnTime
    /\ Speed(PlayerEntity) = PlayerMovementSpeed
    /\ IsSome(world.animation[PlayerEntity])
    /\ world = canon

\* the player's displacement in one frame of the loop
FrameStep == TruncDiv(PlayerMovementSpeed * FrameDurationMicros, 1000000)

\* C9: Movement and Animator run only after Keyboard and AI of the same
\* frame, once, and read the Velocity of that frame: the frame of a
\* MoveInDirection(d) moves the player's box by one step in direction d and
\* gives the player the Animation of d, the frame of a Stop leaves the box
\* where it was
C9_SameFrameVelocity ==
    pc = "dispatch" =>
        /\ \A s \in {"Movement", "Animator"} :
              s \in done => {"Keyboard", "AI"} \subseteq done
        /\ ("Movement" \in done /\ IsSome(keyboard_event)) =>
              LET ev  == Unwrap(keyboard_event)
                  old == Unwrap(pre.bounding_box[PlayerEntity])
                  new == Unwrap(world.bounding_box[PlayerEntity])
              IN  /\ ev[1] = "MoveInDirection" =>
                        /\ RectCenter(new).x
                             = RectCenter(old).x + IntoPoint(ev[2]).x * FrameStep
                        /\ RectCenter(new).y
                             = RectCenter(old).y + IntoPoint(ev[2]).y * FrameStep
                        /\ new.w = old.w /\ new.h = old.h
                  /\ ev = Stop => new = old
        /\ ("Animator" \in done /\ IsSome(keyboard_event)
              /\ Unwrap(keyboard_event)[1] = "MoveInDirection") =>
              /\ IsSome(world.animation[PlayerEntity])
              /\ Unwrap(world.animation[PlayerEntity]).frames
                   = animation_for(Unwrap(movement_animations(PlayerEntity)),
                                   Unwrap(keyboard_event)[2]).frames

\* C9 witness: the player was moving up, a MoveInDirection(Right) arrived,
\* and the dispatch of that frame has moved the box one step to the right
C9_Witness ==
    /\ pc = "dispatch"
    /\ done = Systems
    /\ keyboard_event = Some(MoveInDirection("Right"))
    /\ Unwrap(pre.velocity[PlayerEntity]).direction = "Up"
    /\ Unwrap(pre.velocity[PlayerEntity]).speed = PlayerMovementSpeed
    /\ Unwrap(world.bounding_box[PlayerEntity]).x
         = Unwrap(pre.bounding_box[PlayerEntity]).x + 3
    /\ Unwrap(world.bounding_box[PlayerEntity]).y
         = Unwrap(pre.bounding_box[PlayerEntity]).y

\* the kinds on which two systems conflict: one writes what the other
\* reads or writes
ConflictKinds(s, t) ==
    (Access(s).write \cap (Access(t).read \cup Access(t).write))
    \cup (Access(t).write \cap (Access(s).read \cup Access(s).write))

\* two systems the dispatcher could run at the same moment: both still to
\* run, all declared predecessors of both finished
BothRunnable(s, t) == s # t /\ CanRun(s) /\ CanRun(t)

\* C10: no two systems that the declared dependencies leave unordered
\* declare conflicting access to the same component kind
C10_NoConflictUnordered ==
    \A s, t \in Systems : BothRunnable(s, t) => ConflictKinds(s, t) = {}

\* the systems whose SystemData is declared in the sources at hand
DeclaredSystems == {"Keyboard", "AI", "Movement", "Animator"}

\* C10 as amended: among Keyboard, AI, Movement and Animator, the only two
\* systems left unordered that declare conflicting access are Keyboard and
\* AI, and they conflict on Velocity alone, which both write
C10_OnlyKeyboardAIConflict ==
    \A s, t \in DeclaredSystems :
        (BothRunnable(s, t) /\ ConflictKinds(s, t) # {})
        => /\ {s, t} = {"Keyboard", "AI"}
           /\ ConflictKinds(s, t) = {"Velocity"}
           /\ "Velocity" \in Access(s).write \cap Access(t).write

\* C10 witness: Keyboard and AI have run and changed Velocity, and Movement
\* and Animator, unordered and without conflicting access, are both to run
C10_Witness ==
    /\ BothRunnable("Movement", "Animator")
    /\ ConflictKinds("Movement", "Animator") = {}
    /\ ConflictKinds("Keyboard", "AI") = {"Velocity"}
    /\ world.velocity # pre.velocity

\* the loop of game_loop has been left: by the break on Escape, or by the
\* break on a GameStatus other than Running
LoopLeft == pc \in {"exited", "finished"}

QuitPolled ==
    \E i \in 1..Len(polled) :
        polled[i] = SdlQuit \/ (polled[i][1] = "KeyDown" /\ polled[i][2] = "Escape")

\* C12: whenever a quit event or an Escape key-down is among the events
\* polled at the start of a frame, the event of that frame is Escape and the
\* loop is left without a dispatch, whatever else was polled with it
C12_QuitAlwaysStops ==
    QuitPolled =>
        /\ handle_game_events(polled) = Some(Escape)
        /\ pc = "exited"

\* the Animation entity e had when the dispatch began
PreAnimation(e) == Unwrap(pre.animation[e])

\* entity e moves and had, when the Animator pass began, an Animation over
\* a frame sequence that is not the very allocation of the template of its
\* direction
OtherAllocation(e) ==
    /\ Animated(e) /\ Speed(e) # 0
    /\ IsSome(pre.animation[e])
    /\ PreAnimation(e).frames # DirTemplate(e).frames

NoEmptySequence ==
    \A e \in Entities :
        /\ IsSome(world.animation[e]) =>
              Len(ArcVec(Unwrap(world.animation[e]).frames)) > 0
        /\ (IsSome(world.velocity[e]) /\ IsSome(movement_animations(e))) =>
              \A d \in Direction :
                  Len(ArcVec(animation_for(Unwrap(movement_animations(e)), d).frames)) > 0

\* C14: movement animations built with a frame count of zero end the
\* program at setup: the loop is never entered, no world holding an empty
\* frame sequence is handed to the dispatcher, and no system panics
C14_ZeroFramesFatalAtSetup ==
    /\ sheet_frames = 0 => pc \in {"setup", "aborted"}
    /\ (pc = "dispatch" /\ done = {}) => NoEmptySequence
    /\ pc # "panicked"

\* C14 witness: the frame count was zero; the goal was built, the builder of
\* the player panicked and the program ended before the loop
C14_Witness ==
    /\ sheet_frames = 0
    /\ pc = "aborted"
    /\ frame = 0
    /\ done = {}
    /\ \E gx \in SpawnXSamples : world = GoalWorld(gx)

\* C15: a Keyboard pass with MoveInDirection(d) gives every entity with
\* Player and Velocity the speed of its Player and the direction d, with
\* Stop the speed 0 and the direction it had, with no event the Velocity it
\* had; the Velocity of every other entity and every other component are
\* as before the pass
C15_KeyboardPass ==
    After("Keyboard") =>
        /\ \A e \in Entities :
              (IsSome(player(e)) /\ IsSome(pre.velocity[e])) =>
                  LET old == Unwrap(pre.velocity[e])
                      new == Unwrap(world.velocity[e])
                  IN  /\ IsSome(world.velocity[e])
                      /\ keyboard_event = None => new = old
                      /\ keyboard_event = Some(Stop) =>
                            new.speed = 0 /\ new.direction = old.direction
                      /\ \A d \in Direction :
                            keyboard_event = Some(MoveInDirection(d)) =>
                                /\ new.speed = Unwrap(player(e)).movement_speed
                                /\ new.direction = d
        /\ done = {"Keyboard"} =>
              /\ \A e \in Entities :
                    ~(IsSome(player(e)) /\ IsSome(pre.velocity[e])) =>
                        world.velocity[e] = pre.velocity[e]
              /\ world.bounding_box = pre.bounding_box
              /\ world.sprite = pre.sprite
              /\ world.animation = pre.animation
              /\ world.enemy = pre.enemy

\* C15 witness: the player was moving up, a Stop arrived, and the Keyboard
\* pass alone has run: the player faces up at speed 0, the enemies move on
C15_Witness ==
    /\ done = {"Keyboard"}
    /\ pc = "dispatch"
    /\ keyboard_event = Some(Stop)
    /\ pre.velocity[PlayerEntity]
         = Some([speed |-> PlayerMovementSpeed, direction |-> "Up"])
    /\ world.velocity[PlayerEntity] = Some([speed |-> 0, direction |-> "Up"])
    /\ \A e \in EnemyEntities :
          world.velocity[e] = pre.velocity[e] /\ Speed(e) = EnemySpeed

\* every number the generator can yield resolves as the table says, for an
\* entity heading `current`
DrawTable(current) ==
    \A r \in DrawRange :
        ResolveDirection(r, current) =
            CASE r <= 60 -> current
              [] r \in 61..70 -> "Up"
              [] r \in 71..80 -> "Down"
              [] r \in 81..90 -> "Left"
              [] OTHER -> "Right"

\* C16: in an AI pass, an entity with Enemy and Velocity whose
\* direction_timer is at least direction_change_delay old gets the direction
\* resolved from the drawn number (1-60 the one it had, 61-70 Up, 71-80 Down,
\* 81-90 Left, 91-100 Right) and its direction_timer set to the current time;
\* otherwise direction and direction_timer stay, so that two re-decisions of
\* an enemy are at least direction_change_delay apart
C16_AIPass ==
    After("AI") =>
        \A e \in Entities :
            (IsSome(pre.enemy[e]) /\ IsSome(pre.velocity[e])) =>
                LET old_en == Unwrap(pre.enemy[e])
                    new_en == Unwrap(world.enemy[e])
                    old    == Unwrap(pre.velocity[e]).direction
                    r      == draws[e]
                IN  /\ IF clock - old_en.direction_timer >= old_en.direction_change_delay
                       THEN /\ r \in 1..100
                            /\ r \in 1..60   => Dir(e) = old
                            /\ r \in 61..70  => Dir(e) = "Up"
                            /\ r \in 71..80  => Dir(e) = "Down"
                            /\ r \in 81..90  => Dir(e) = "Left"
                            /\ r \in 91..100 => Dir(e) = "Right"
                            /\ new_en.direction_timer = clock
                       ELSE /\ Dir(e) = old
                            /\ new_en = old_en
                    /\ new_en.direction_timer # old_en.direction_timer =>
                          new_en.direction_timer - old_en.direction_timer
                            >= old_en.direction_change_delay
                    /\ new_en.direction_change_delay = old_en.direction_change_delay
                    /\ done = {"AI"} => DrawTable(old)

\* C16 witness: exactly direction_change_delay after an enemy's timer was
\* set the AI has run, the number 100 was drawn, the enemy has turned right
\* and its timer is the current time
C16_Witness ==
    /\ After("AI")
    /\ \E e \in EnemyEntities :
          /\ clock - Unwrap(pre.enemy[e]).direction_timer = DirectionChangeDelayMs
          /\ draws[e] = 100
          /\ Unwrap(pre.velocity[e]).direction # "Right"
          /\ Dir(e) = "Right"
          /\ Unwrap(world.enemy[e]).direction_timer = clock

\* an enemy whose timer is younger than the delay has been through an AI
\* pass and kept direction and timer
C16_NotElapsedReached ==
    /\ After("AI")
    /\ \E e \in EnemyEntities :
          /\ clock - Unwrap(pre.enemy[e]).direction_timer \in 1..(DirectionChangeDelayMs - 1)
          /\ world.enemy[e] = pre.enemy[e]
          /\ world.velocity[e] = pre.velocity[e]

\* the loop has been entered: the entities are spawned
Spawned == pc \in {"poll", "dispatch", "exited", "finished"}

\* C17: the AI system changes no speed, and over any frames and inputs
\* every enemy keeps the speed it was spawned with
C17_EnemySpeedConstant ==
    /\ Spawned =>
          \A e \in EnemyEntities :
              IsSome(world.velocity[e]) /\ Speed(e) = EnemySpeed
    /\ (pc = "dispatch" /\ done = {"AI"}) =>
          \A e \in Entities :
              IsSome(pre.velocity[e]) =>
                  /\ IsSome(world.velocity[e])
                  /\ Speed(e) = Unwrap(pre.velocity[e]).speed

\* C17 witness: in a later frame the AI has turned an enemy, which still
\* has the speed it was spawned with
C17_Witness ==
    /\ After("AI")
    /\ frame >= 1
    /\ \E e \in EnemyEntities :
          /\ Unwrap(world.enemy[e]).direction_timer = clock
          /\ Dir(e) # Unwrap(pre.velocity[e]).direction
          /\ Speed(e) = EnemySpeed

\* the Animation storage as the frame-advance loop of this dispatch's
\* Animator pass found it: the storage at the start of the dispatch after
\* the first loop, which reads the Velocity Keyboard and AI have left
AtAdvance == FirstLoop([pre EXCEPT !.velocity = world.velocity])

\* C18: in an Animator pass, every entity with Animation and Sprite whose
\* frame timer is at least the current frame's duration old moves to frame
\* (current_frame + 1) mod length, its frame timer is set to the current
\* time and its Sprite to the sprite of the new frame; this is one step,
\* however many frame durations have elapsed
C18_AdvanceOneFrame ==
    After("Animator") =>
        \A e \in Entities :
            (IsSome(AtAdvance[e]) /\ IsSome(pre.sprite[e])) =>
                LET a      == Unwrap(AtAdvance[e])
                    frames == ArcVec(a.frames)
                    out    == Unwrap(world.animation[e])
                IN  /\ IsSome(world.animation[e])
                    /\ out.frames = a.frames
                    /\ out.current_frame \in
                          {a.current_frame, (a.current_frame + 1) % Len(frames)}
                    /\ clock - a.frame_timer >= frames[a.current_frame + 1].duration =>
                          /\ out.current_frame = (a.current_frame + 1) % Len(frames)
                          /\ out.frame_timer = clock
                          /\ world.sprite[e] = Some(frames[out.current_frame + 1].sprite)

\* C18 witness: the subject's Animation was at the last frame with a frame
\* timer four frame durations old; the Animator has run and it is at frame
\* 0, with the timer set to the current time and the Sprite of frame 0
C18_Witness ==
    /\ After("Animator")
    /\ Speed(AnimSubject) # 0
    /\ IsSome(pre.animation[AnimSubject])
    /\ PreAnimation(AnimSubject).frames = DirTemplate(AnimSubject).frames
    /\ PreAnimation(AnimSubject).current_frame = FramesLength - 1
    /\ clock - PreAnimation(AnimSubject).frame_timer = 4 * StepDelayMs
    /\ Unwrap(world.animation[AnimSubject]).current_frame = 0
    /\ Unwrap(world.animation[AnimSubject]).frame_timer = clock
    /\ world.sprite[AnimSubject]
         = Some(ArcVec(DirTemplate(AnimSubject).frames)[1].sprite)

\* the Animator pass of this dispatch has replaced the Animation of entity
\* e: e moves, and the Animation it had was over frames other than those
\* of the template of its direction
Replaced(e) ==
    /\ Animated(e) /\ Speed(e) # 0
    /\ IsSome(pre.animation[e])
    /\ ArcVec(PreAnimation(e).frames) # ArcVec(DirTemplate(e).frames)

\* C19: an Animation the Animator has put in place of another is at frame
\* 0 with a frame timer equal to the time of the replacement, so that its
\* first frame is shown for a whole frame duration
C19_ReplacementTimerIsNow ==
    After("Animator") =>
        \A e \in Entities :
            Replaced(e) =>
                /\ IsSome(world.animation[e])
                /\ Unwrap(world.animation[e]).frames = DirTemplate(e).frames
                /\ Unwrap(world.animation[e]).current_frame = 0
                /\ Unwrap(world.animation[e]).frame_timer = clock

\* the positions in the polled batch of the events that stand for a
\* logical event
Logical == {i \in 1..Len(polled) : IsSome(MatchEvent(polled[i]))}

\* the logical event of the last such event of the batch, if any
LastLogical ==
    IF Logical = {} THEN None
    ELSE MatchEvent(polled[CHOOSE i \in Logical : \A j \in Logical : j <= i])

\* C20: the KeyboardEvent the Keyboard system reads in a frame is given by
\* the events polled at the start of that frame alone, at most one logical
\* event, None where nothing was polled: no event of an earlier frame is
\* applied again, and a moving player keeps its Velocity through a frame
\* without event
C20_EventOfThisFrameOnly ==
    pc = "dispatch" =>
        /\ keyboard_event = LastLogical
        /\ polled = <<>> => keyboard_event = None
        /\ keyboard_event \in {None} \cup {Some(ev) : ev \in KeyboardEvents}
        /\ (keyboard_event = None /\ "Keyboard" \in done) =>
              world.velocity[PlayerEntity] = pre.velocity[PlayerEntity]

\* C20 witness: the player was sent right in an earlier frame; in this frame
\* nothing was polled, the resource is None, the Keyboard system has run
\* and the player still moves right at its movement speed
C20_Witness ==
    /\ After("Keyboard")
    /\ frame >= 1
    /\ polled = <<>>
    /\ keyboard_event = None
    /\ pre.velocity[PlayerEntity]
         = Some([speed |-> PlayerMovementSpeed, direction |-> "Right"])
    /\ world.velocity[PlayerEntity] = pre.velocity[PlayerEntity]

\* C21: every Animation in the world, its frame sequence built with at
\* least one frame, has current_frame below the length of the sequence, in
\* every reachable state, so that the Animator's indexing of the current
\* frame never leaves the sequence
C21_FrameIndexInBounds ==
    /\ pc # "panicked"
    /\ \A e \in Entities :
          IsSome(world.animation[e]) =>
              /\ Unwrap(world.animation[e]).current_frame >= 0
              /\ Unwrap(world.animation[e]).current_frame
                   < Len(ArcVec(Unwrap(world.animation[e]).frames))

\* C21 witness: the subject's Animation was at the last frame and its frame
\* timer exactly one frame duration old; the Animator has indexed that
\* frame, has advanced, and the Animation is at frame 0
C21_Witness ==
    /\ After("Animator")
    /\ Speed(AnimSubject) # 0
    /\ IsSome(pre.animation[AnimSubject])
    /\ PreAnimation(AnimSubject).frames = DirTemplate(AnimSubject).frames
    /\ PreAnimation(AnimSubject).current_frame
         = Len(ArcVec(PreAnimation(AnimSubject).frames)) - 1
    /\ clock - PreAnimation(AnimSubject).frame_timer = StepDelayMs
    /\ Unwrap(world.animation[AnimSubject]).current_frame = 0
    /\ pc = "dispatch"

\* the Animator pass of the latest dispatch has run to its end
AnimatorPassed == "Animator" \in done /\ pc # "panicked"

\* C22: after every Animator pass, every entity with Velocity and
\* MovementAnimations and a speed other than 0 has an Animation over the
\* frame sequence of the template of the direction it now has, whatever
\* Keyboard events and AI decisions came before
C22_AnimationMatchesDirection ==
    AnimatorPassed =>
        \A e \in Entities :
            (Animated(e) /\ Speed(e) # 0) =>
                /\ IsSome(world.animation[e])
                /\ Unwrap(world.animation[e]).frames = DirTemplate(e).frames
                /\ ArcVec(Unwrap(world.animation[e]).frames)
                     = ArcVec(DirTemplate(e).frames)

\* C22 witness: the player, moving up, was sent right, the AI has turned an
\* enemy in the same frame, the Animator has run, and both have the
\* Animation of their new direction
C22_Witness ==
    /\ After("Animator")
    /\ keyboard_event = Some(MoveInDirection("Right"))
    /\ pre.velocity[PlayerEntity]
         = Some([speed |-> PlayerMovementSpeed, direction |-> "Up"])
    /\ IsSome(pre.animation[PlayerEntity])
    /\ Unwrap(pre.animation[PlayerEntity]).frames = <<PlayerEntity, 3>>
    /\ Unwrap(world.animation[PlayerEntity]).frames = <<PlayerEntity, 2>>
    /\ \E e \in EnemyEntities :
          /\ Dir(e) # Unwrap(pre.velocity[e]).direction
          /\ Unwrap(pre.animation[e]).frames # DirTemplate(e).frames
          /\ Unwrap(world.animation[e]).frames = DirTemplate(e).frames

====
